---- MODULE Spec2Model ----
(***************************************************************************)
(* Model of the tool functions of the smolagents demonstration scripts:    *)
(*   src/demo_tools.py, src/local_multiple_tools.py (API tools and the     *)
(*   calculator), src/my_agent_demo.py, src/my_gradio_demo.py and          *)
(*   src/simple_demo.py (the eval-based calculators), and the demo loop    *)
(*   run_comprehensive_demo.                                               *)
(*                                                                         *)
(* Conventions.                                                            *)
(*  - A Python str is a sequence of tokens (TLA+ strings): the literal     *)
(*    pieces and the substituted fields of an f-string, in order.  The     *)
(*    emoji prefixes of the source are written in ASCII, e.g. "[brain] ".  *)
(*  - An expression handed to a calculator is a sequence of characters.    *)
(*  - A JSON value is a record [k |-> kind, v |-> payload].                *)
(*  - A Python number is [t |-> "int" | "float", n |-> num, d |-> den];    *)
(*    a float is kept as the exact rational it approximates.               *)
(*  - A Python evaluation step yields Ok(value) or Err(exception class).   *)
(***************************************************************************)
EXTENDS Integers, Sequences, FiniteSets, TLC

VARIABLES
    call,      \* the tool invocation: file, tool, arguments, environment, HTTP outcome, random pick
    out,       \* what the invocation did: pending, or returned a value, or raised
    reqs,      \* the HTTP GET requests the invocation issued, in order (their URLs)
    stdout,    \* what the invocation printed
    evald,     \* the expressions the invocation passed to eval, in order
    demoPc,    \* run_comprehensive_demo: "idle", then the index of the next demo, then "done"
    demoLog,   \* run_comprehensive_demo: one entry per demo that ran
    runs       \* two independent call sequences, for the comparison of their last calls

vars == <<call, out, reqs, stdout, evald, demoPc, demoLog, runs>>

----------------------------------------------------------------------------
(* Generic helpers *)

Range(s) == {s[i] : i \in 1..Len(s)}

JNull == [k |-> "null", v |-> <<>>]

Ok(v) == [ok |-> TRUE, val |-> v, exc |-> ""]
Err(e) == [ok |-> FALSE, val |-> JNull, exc |-> e]

\* The first failing step of a sequence of evaluation steps, in evaluation order.
FirstErr(rs) ==
    LET bad == {i \in 1..Len(rs) : ~rs[i].ok}
    IN  IF bad = {} THEN ""
        ELSE rs[CHOOSE i \in bad : \A j \in bad : i <= j].exc

\* Body(x) for x the value of e, with e evaluated once
With(e, Body(_)) == CHOOSE y \in {Body(x) : x \in {e}} : TRUE

RECURSIVE Gcd(_, _)
Gcd(a, b) == With(<<a, b>>, LAMBDA p : IF p[2] = 0 THEN p[1] ELSE Gcd(p[2], p[1] % p[2]))

Abs(a) == IF a < 0 THEN -a ELSE a

----------------------------------------------------------------------------
(* Python numbers: int and float *)

Num(t, n, d) ==
    LET g == Gcd(Abs(n), Abs(d))
        s == IF d < 0 THEN -1 ELSE 1
    IN  [t |-> t, n |-> s * (n \div g), d |-> s * (d \div g)]

PyInt(n) == [t |-> "int", n |-> n, d |-> 1]
PyFloat(n, d) == Num("float", n, d)

NumType(a, b) == IF a.t = "float" \/ b.t = "float" THEN "float" ELSE "int"

NumAdd(a, b) == Num(NumType(a, b), a.n * b.d + b.n * a.d, a.d * b.d)
NumSub(a, b) == Num(NumType(a, b), a.n * b.d - b.n * a.d, a.d * b.d)
NumMul(a, b) == Num(NumType(a, b), a.n * b.n, a.d * b.d)
NumNeg(a) == [a EXCEPT !.n = -a.n]

\* a / b: true division, always a float
NumTrueDiv(a, b) ==
    IF b.n = 0 THEN Err("ZeroDivisionError")
    ELSE Ok(Num("float", a.n * b.d, a.d * b.n))

\* a // b: floor division, an int for two ints
NumFloorDiv(a, b) ==
    IF b.n = 0 THEN Err("ZeroDivisionError")
    ELSE LET q == Num("int", a.n * b.d, a.d * b.n)
         IN  Ok([t |-> NumType(a, b), n |-> q.n \div q.d, d |-> 1])

RECURSIVE IntPow(_, _)
IntPow(b, e) == IF e = 0 THEN 1 ELSE b * IntPow(b, e - 1)

\* a ** b for an exponent that is a whole number (int, or a float such as 2.0)
\* (a fractional exponent has no exact value here: no bounded input reaches
\* one, and TLC stops with an error on the empty CHOOSE if one ever does)
NumPow(a, b) ==
    IF b.d # 1 THEN CHOOSE r \in {} : TRUE
    ELSE IF b.n >= 0
         THEN Ok(Num(NumType(a, b), IntPow(a.n, b.n), IntPow(a.d, b.n)))
         ELSE IF a.n = 0 THEN Err("ZeroDivisionError")
              ELSE Ok(Num("float", IntPow(a.d, -b.n), IntPow(a.n, -b.n)))

\* up to k significant decimal digits of rem/d (0 <= rem < d); repr(float) prints
\* the shortest string that round-trips, which has at most 17 of them
RECURSIVE FracDigits(_, _, _, _)
FracDigits(rem, d, k, started) ==
    IF rem = 0 \/ k = 0 THEN ""
    ELSE LET q == (rem * 10) \div d
             s == started \/ q # 0
         IN  ToString(q) \o With(<<(rem * 10) % d, IF s THEN k - 1 ELSE k, s>>,
                                  LAMBDA n : FracDigits(n[1], d, n[2], n[3]))

\* str(x) of a number: "850", "-3", "1.0", "0.5", "0.3333333333333333"
\* (the expansion of the exact rational, cut after 16 significant digits: the last
\* digit of a non-terminating expansion can differ from repr's, and -0.0 prints 0.0)
NumStr(x) ==
    IF x.t = "int" THEN ToString(x.n)
    ELSE LET a == Abs(x.n)
             whole == a \div x.d
             frac == FracDigits(a % x.d, x.d, 16, whole # 0)
         IN  (IF x.n < 0 THEN "-" ELSE "") \o ToString(whole) \o "."
                 \o (IF frac = "" THEN "0" ELSE frac)

\* exactly k decimal digits of rem/d, truncated
RECURSIVE FixedDigits(_, _, _)
FixedDigits(rem, d, k) ==
    IF k = 0 THEN ""
    ELSE With(<<rem, k>>,
              LAMBDA p : ToString((p[1] * 10) \div d)
                             \o FixedDigits((p[1] * 10) % d, d, p[2] - 1))

\* format(x, ".kf") of a number: x rounded to k places (half up on the exact rational)
NumFormatF(x, k) ==
    LET p == IntPow(10, k)
        a == Abs(x.n)
        scaled == (2 * a * p + x.d) \div (2 * x.d)
    IN  (IF x.n < 0 /\ scaled # 0 THEN "-" ELSE "") \o ToString(scaled \div p)
            \o (IF k = 0 THEN "" ELSE "." \o FixedDigits(scaled % p, p, k))

----------------------------------------------------------------------------
(* JSON values as Python objects, and the Python operations the tools apply *)

JBool(b) == [k |-> "bool", v |-> b]
JNum(x) == [k |-> "num", v |-> x]
JStr(tokens) == [k |-> "str", v |-> tokens]
JList(elems) == [k |-> "list", v |-> elems]
JDict(fields) == [k |-> "dict", v |-> fields]

\* type(x).__name__
PyType(j) ==
    CASE j.k = "null" -> "NoneType"
      [] j.k = "bool" -> "bool"
      [] j.k = "num" -> j.v.t
      [] j.k = "str" -> "str"
      [] j.k = "list" -> "list"
      [] j.k = "dict" -> "dict"

\* bool(x)
PyTruthy(j) ==
    CASE j.k = "null" -> FALSE
      [] j.k = "bool" -> j.v
      [] j.k = "num" -> j.v.n # 0
      [] j.k = "str" -> j.v # <<>>
      [] j.k = "list" -> j.v # <<>>
      [] j.k = "dict" -> DOMAIN j.v # {}

\* key in x, for a str key
PyContains(key, j) ==
    CASE j.k = "dict" -> Ok(key \in DOMAIN j.v)
      [] j.k = "list" -> Ok(\E i \in 1..Len(j.v) : j.v[i].k = "str" /\ j.v[i].v = <<key>>)
      [] j.k = "str" -> Ok(key \in Range(j.v))          \* substring test
      [] OTHER -> Err("TypeError")                       \* not iterable

\* x[key], for a str key
PyGetItem(j, key) ==
    CASE j.k = "dict" -> IF key \in DOMAIN j.v THEN Ok(j.v[key]) ELSE Err("KeyError")
      [] OTHER -> Err("TypeError")      \* indices must be integers / not subscriptable

\* x[0]
PyFirst(j) ==
    CASE j.k = "list" -> IF j.v # <<>> THEN Ok(j.v[1]) ELSE Err("IndexError")
      [] j.k = "str" -> IF j.v # <<>> THEN Ok(JStr(<<j.v[1]>>)) ELSE Err("IndexError")
      [] j.k = "dict" -> Err("KeyError")
      [] OTHER -> Err("TypeError")

\* x.get(key, default)
PyGet(j, key, default) ==
    IF j.k = "dict"
    THEN Ok(IF key \in DOMAIN j.v THEN j.v[key] ELSE default)
    ELSE Err("AttributeError")

\* len(x)
PyLen(j) ==
    CASE j.k = "dict" -> Ok(Cardinality(DOMAIN j.v))
      [] j.k \in {"list", "str"} -> Ok(Len(j.v))
      [] OTHER -> Err("TypeError")

\* x[k1][k2]...: the lookups in order, stopping at the first that raises
RECURSIVE PyPath(_, _)
PyPath(j, keys) ==
    IF keys = <<>> THEN Ok(j)
    ELSE LET r == PyGetItem(j, Head(keys))
         IN  IF r.ok THEN PyPath(r.val, Tail(keys)) ELSE r

RECURSIVE SetToSeq(_)
SetToSeq(S) ==
    IF S = {} THEN <<>>
    ELSE LET x == CHOOSE y \in S : TRUE IN <<x>> \o SetToSeq(S \ {x})

\* str(x), as the tokens of the resulting string; never raises
RECURSIVE PyStr(_)
RECURSIVE PyStrAll(_)
PyStrAll(js) == IF js = <<>> THEN <<>> ELSE PyStr(Head(js)) \o PyStrAll(Tail(js))
PyStr(j) ==
    CASE j.k = "null" -> <<"None">>
      [] j.k = "bool" -> <<IF j.v THEN "True" ELSE "False">>
      [] j.k = "num" -> <<NumStr(j.v)>>
      [] j.k = "str" -> j.v
      [] j.k = "list" -> <<"[">> \o PyStrAll(j.v) \o <<"]">>
      [] j.k = "dict" ->
            LET keys == SetToSeq(DOMAIN j.v)
            IN  <<"{">> \o keys \o PyStrAll([i \in 1..Len(keys) |-> j.v[keys[i]]]) \o <<"}">>

\* amount * rate for an int amount, then format(..., ".kf") of the product
PyMulFormatF(amount, j, k) ==
    CASE j.k = "num" -> Ok(NumFormatF(NumMul(PyInt(amount), j.v), k))
      [] j.k = "bool" -> Ok(NumFormatF(PyInt(IF j.v THEN amount ELSE 0), k))
      [] j.k = "str" -> Err("ValueError")    \* str repeated; no format code 'f' for str
      [] OTHER -> Err("TypeError")           \* list repeated, dict, None

\* format(x, ".kf")
PyFormatF(j, k) ==
    CASE j.k = "num" -> Ok(NumFormatF(j.v, k))
      [] j.k = "bool" -> Ok(NumFormatF(PyInt(IF j.v THEN 1 ELSE 0), k))
      [] j.k = "str" -> Err("ValueError")
      [] OTHER -> Err("TypeError")

----------------------------------------------------------------------------
(* Outcomes of a tool invocation *)

Pending == [kind |-> "pending", type |-> "", val |-> <<>>, exc |-> ""]
\* return of a str built by an f-string or a literal
Return(tokens) == [kind |-> "return", type |-> "str", val |-> tokens, exc |-> ""]
\* return of a value taken from the parsed JSON as it is
ReturnRaw(j) == [kind |-> "return", type |-> PyType(j), val |-> PyStr(j), exc |-> ""]
Raise(e) == [kind |-> "raise", type |-> "", val |-> <<>>, exc |-> e]

\* what one invocation did
Done(r, o, printed) == [reqs |-> r, out |-> o, stdout |-> printed, evald |-> <<>>]
\* what one invocation of a calculator did: e holds the expressions passed to eval
DoneCalc(o, e) == [reqs |-> <<>>, out |-> o, stdout |-> <<>>, evald |-> e]

\* the exception classes of the model; the first four derive from
\* requests.RequestException, all of them from Exception
RequestExceptions == {"ConnectionError", "Timeout", "HTTPError", "JSONDecodeError"}
OtherExceptions ==
    {"ValueError", "KeyError", "TypeError", "AttributeError", "IndexError",
     "ZeroDivisionError", "SyntaxError", "NameError", "UnicodeEncodeError"}
Exceptions == RequestExceptions \cup OtherExceptions

\* a variant of the handlers of demo_tools.py that catches requests.RequestException only
DT_caught_narrow == RequestExceptions

\* "except Exception as e": what the handlers of demo_tools.py catch
DT_caught == Exceptions

\* "except requests.RequestException as e": what those of local_multiple_tools.py catch
LM_caught == RequestExceptions

\* str(e) of a caught exception, as one token
ExcText(e) == "<" \o e \o ">"

----------------------------------------------------------------------------
(* The HTTP exchange: requests.get, raise_for_status, response.json()      *)
(* http.status is what the network and the server do with the one request: *)
(*   "conn_error", "timeout"  requests.get raises                          *)
(*   "http_error"             raise_for_status raises (4xx, 5xx)           *)
(*   "not_json"               response.json() raises JSONDecodeError, a    *)
(*                            RequestException (requests >= 2.27)          *)
(*   "not_json_old"           response.json() raises ValueError (older)    *)
(*   "ok"                     http.data is the parsed body                 *)

\* a variant that repeats a failed request once
HttpGetRetry(url, http) ==
    LET r == CASE http.status = "conn_error" -> Err("ConnectionError")
               [] http.status = "timeout" -> Err("Timeout")
               [] http.status = "http_error" -> Err("HTTPError")
               [] http.status = "not_json" -> Err("JSONDecodeError")
               [] http.status = "not_json_old" -> Err("ValueError")
               [] http.status = "ok" -> Ok(http.data)
    IN  [reqs |-> IF r.ok THEN <<url>> ELSE <<url, url>>, r |-> r]

HttpGet(url, http) ==
    LET r == CASE http.status = "conn_error" -> Err("ConnectionError")
               [] http.status = "timeout" -> Err("Timeout")
               [] http.status = "http_error" -> Err("HTTPError")
               [] http.status = "not_json" -> Err("JSONDecodeError")
               [] http.status = "not_json_old" -> Err("ValueError")
               [] http.status = "ok" -> Ok(http.data)
    IN  [reqs |-> <<url>>, r |-> r]

\* os.getenv(name): None when unset, else the str
Getenv(env, name) == env[name]

\* a variant that takes only an unset key for missing ("if api_key is None")
KeyMissingUnsetOnly(api_key) == api_key.k = "null"

\* "if not api_key": unset or empty
KeyMissing(api_key) == ~PyTruthy(api_key)

----------------------------------------------------------------------------
(* src/demo_tools.py *)

DT_convert_currency(amount, from_currency, to_currency, http) ==
    LET url == <<"https://api.exchangerate-api.com/v4/latest/", from_currency>>
        g == HttpGet(url, http)
        data == g.r.val
        notFound == Return(<<"[x] Could not find exchange rate for ", from_currency,
                             " to ", to_currency>>)
        body ==
            IF ~g.r.ok THEN Raise(g.r.exc)
            ELSE LET c1 == PyContains("rates", data)
                 IN  IF ~c1.ok THEN Raise(c1.exc)
                     ELSE IF ~c1.val THEN notFound
                     ELSE LET rates == PyGetItem(data, "rates")
                              c2 == PyContains(to_currency, rates.val)
                              rate == PyGetItem(rates.val, to_currency)
                              conv == PyMulFormatF(amount, rate.val, 2)
                              shown == PyFormatF(rate.val, 4)
                          IN  IF ~rates.ok THEN Raise(rates.exc)
                              ELSE IF ~c2.ok THEN Raise(c2.exc)
                              ELSE IF ~c2.val THEN notFound
                              ELSE IF FirstErr(<<rate, conv, shown>>) # ""
                                   THEN Raise(FirstErr(<<rate, conv, shown>>))
                              ELSE Return(<<"[money] ", ToString(amount), " ", from_currency,
                                            " = ", conv.val, " ", to_currency,
                                            " (Rate: ", shown.val, ")">>)
    IN  Done(g.reqs,
             IF body.kind = "raise" /\ body.exc \in DT_caught
             THEN Return(<<"[x] Error fetching exchange rate: ", ExcText(body.exc)>>)
             ELSE body,
             <<>>)

\* units = "m" if celsius else "f"
DT_units(celsius) == IF PyTruthy(celsius) THEN "m" ELSE "f"

\* temp_unit = "C" if celsius else "F", after the degree sign
DT_temp_unit(celsius) == IF PyTruthy(celsius) THEN "C" ELSE "F"

DT_get_weather(location, celsius, env, http) ==
    LET api_key == Getenv(env, "WEATHERSTACK_API_KEY")
        units == DT_units(celsius)
        url == <<"http://api.weatherstack.com/current?access_key=">> \o PyStr(api_key)
                   \o <<"&query=", location, "&units=", units>>
        g == HttpGet(url, http)
        data == g.r.val
        hasError == PyContains("error", data)
        info == PyPath(data, <<"error", "info">>)
        current == PyGetItem(data, "current")
        location_info == PyGetItem(data, "location")
        temp_unit == DT_temp_unit(celsius)
        name == PyGetItem(location_info.val, "name")
        country == PyGetItem(location_info.val, "country")
        descriptions == PyGetItem(current.val, "weather_descriptions")
        description == PyFirst(descriptions.val)
        temperature == PyGetItem(current.val, "temperature")
        feelslike == PyGetItem(current.val, "feelslike")
        humidity == PyGetItem(current.val, "humidity")
        wind_speed == PyGetItem(current.val, "wind_speed")
        steps == <<current, location_info, name, country, descriptions, description,
                   temperature, feelslike, humidity, wind_speed>>
        body ==
            IF ~g.r.ok THEN Raise(g.r.exc)
            ELSE IF ~hasError.ok THEN Raise(hasError.exc)
            ELSE IF hasError.val
                 THEN IF info.ok
                      THEN Return(<<"[x] Weather API error: ">> \o PyStr(info.val))
                      ELSE Raise(info.exc)
            ELSE IF FirstErr(steps) # "" THEN Raise(FirstErr(steps))
            ELSE Return(<<"[weather] Weather in ">> \o PyStr(name.val) \o <<", ">>
                        \o PyStr(country.val) \o <<":\n   ">>
                        \o PyStr(description.val) \o <<"\n   Temperature: ">>
                        \o PyStr(temperature.val) \o <<temp_unit, " (feels like ">>
                        \o PyStr(feelslike.val) \o <<temp_unit, ")\n   Humidity: ">>
                        \o PyStr(humidity.val) \o <<"%, Wind: ">>
                        \o PyStr(wind_speed.val) \o <<" km/h">>)
    IN  IF KeyMissing(api_key)
        THEN Done(<<>>,
                  Return(<<"[x] Weather API key not configured. Please add WEATHERSTACK_API_KEY to your .env file.">>),
                  <<>>)
        ELSE Done(g.reqs,
                  IF body.kind = "raise" /\ body.exc \in DT_caught
                  THEN Return(<<"[x] Error fetching weather: ", ExcText(body.exc)>>)
                  ELSE body,
                  <<>>)

DT_fallback_jokes ==
    <<"Why do programmers prefer dark mode? Because light attracts bugs!",
      "How many programmers does it take to change a light bulb? None, that's a hardware problem!",
      "Why do Java developers wear glasses? Because they don't C#!">>

\* a variant of the handler that reports the exception, as the other tools do
DT_joke_fallback_reports(e, rnd) == Return(<<"[smile] Error fetching joke: ", ExcText(e)>>)

\* the except block of get_joke; rnd is the index random.choice picks
DT_joke_fallback(e, rnd) == Return(<<"[smile] ", DT_fallback_jokes[rnd]>>)

DT_get_joke(http, rnd) ==
    LET url == <<"https://v2.jokeapi.dev/joke/Programming?safe-mode&type=single">>
        g == HttpGet(url, http)
        data == g.r.val
        error == PyGet(data, "error", JNull)
        type == PyGetItem(data, "type")
        joke == PyGetItem(data, "joke")
        setup == PyGetItem(data, "setup")
        delivery == PyGetItem(data, "delivery")
        body ==
            IF ~g.r.ok THEN Raise(g.r.exc)
            ELSE IF ~error.ok THEN Raise(error.exc)
            ELSE IF PyTruthy(error.val)
                 THEN Return(<<"[sweat] Sorry, couldn't fetch a joke right now.">>)
            ELSE IF ~type.ok THEN Raise(type.exc)
            ELSE IF type.val.k = "str" /\ type.val.v = <<"single">>
                 THEN IF joke.ok THEN Return(<<"[smile] ">> \o PyStr(joke.val))
                      ELSE Raise(joke.exc)
            ELSE IF FirstErr(<<setup, delivery>>) # ""
                 THEN Raise(FirstErr(<<setup, delivery>>))
            ELSE Return(<<"[smile] ">> \o PyStr(setup.val) \o <<"\n   ">>
                        \o PyStr(delivery.val))
    IN  Done(g.reqs,
             IF body.kind = "raise" /\ body.exc \in DT_caught
             THEN DT_joke_fallback(body.exc, rnd)
             ELSE body,
             <<>>)

DT_fallback_facts ==
    <<"The first computer bug was an actual bug - a moth trapped in a Harvard Mark II computer in 1947.",
      "Python was named after the British comedy group Monty Python, not the snake.",
      "The term 'debugging' was popularized by Admiral Grace Hopper in the 1940s.",
      "The first programmer was Ada Lovelace, who wrote the first algorithm for Charles Babbage's Analytical Engine in 1843.",
      "The '@' symbol was used in email addresses for the first time by Ray Tomlinson in 1971.">>

\* the try block of get_random_fact: a return, an exception, or falling off its
\* end (kind "pending") when the JSON has no "text"
DT_get_random_fact_try(http) ==
    LET url == <<"https://uselessfacts.jsph.pl/random.json?language=en">>
        g == HttpGet(url, http)
        data == g.r.val
        hasText == PyContains("text", data)
        text == PyGetItem(data, "text")
    IN  [reqs |-> g.reqs,
         body |-> IF ~g.r.ok THEN Raise(g.r.exc)
                  ELSE IF ~hasText.ok THEN Raise(hasText.exc)
                  ELSE IF hasText.val
                       THEN IF text.ok
                            THEN Return(<<"[brain] Random Fact: ">> \o PyStr(text.val))
                            ELSE Raise(text.exc)
                  ELSE Pending]

\* a variant whose fallback sits in the except block: falling off the end of the
\* try block returns None
DT_get_random_fact_in_handler(http, rnd) ==
    LET t == DT_get_random_fact_try(http)
        caught == t.body.kind = "raise" /\ t.body.exc \in DT_caught
        fallback == Return(<<"[brain] Random Fact: ", DT_fallback_facts[rnd]>>)
    IN  Done(t.reqs,
             IF caught THEN fallback
             ELSE IF t.body.kind = "pending" THEN ReturnRaw(JNull) ELSE t.body,
             IF caught THEN <<<<"Primary fact API failed: ", ExcText(t.body.exc)>>>> ELSE <<>>)

DT_get_random_fact(http, rnd) ==
    LET t == DT_get_random_fact_try(http)
        caught == t.body.kind = "raise" /\ t.body.exc \in DT_caught
        fallback == Return(<<"[brain] Random Fact: ", DT_fallback_facts[rnd]>>)
    IN  Done(t.reqs,
             IF caught \/ t.body.kind = "pending" THEN fallback ELSE t.body,
             IF caught THEN <<<<"Primary fact API failed: ", ExcText(t.body.exc)>>>> ELSE <<>>)

\* str.replace(' ', '_') on the tokens of the query
Replace(tokens, old, new) ==
    [i \in 1..Len(tokens) |-> IF tokens[i] = old THEN new ELSE tokens[i]]

DT_search_wikipedia(query, http) ==
    LET url == <<"https://en.wikipedia.org/api/rest_v1/page/summary/">>
                   \o Replace(query, " ", "_")
        g == HttpGet(url, http)
        data == g.r.val
        hasExtract == PyContains("extract", data)
        extract == PyGetItem(data, "extract")
        title == PyGet(data, "title", JStr(query))
        urls == PyGet(data, "content_urls", JDict(<<>>))
        desktop == PyGet(urls.val, "desktop", JDict(<<>>))
        page_url == PyGet(desktop.val, "page", JStr(<<>>))
        steps == <<title, extract, urls, desktop, page_url>>
        body ==
            IF ~g.r.ok THEN Raise(g.r.exc)
            ELSE IF ~hasExtract.ok THEN Raise(hasExtract.exc)
            ELSE IF hasExtract.val /\ ~extract.ok THEN Raise(extract.exc)
            ELSE IF hasExtract.val /\ PyTruthy(extract.val)
                 THEN IF FirstErr(steps) # "" THEN Raise(FirstErr(steps))
                      ELSE Return(<<"[book] Wikipedia - ">> \o PyStr(title.val) \o <<":\n">>
                                  \o PyStr(extract.val) \o <<"\n\n[link] Read more: ">>
                                  \o PyStr(page_url.val))
            ELSE Return(<<"[x] No Wikipedia summary found for '">> \o query \o <<"'.">>)
    IN  Done(g.reqs,
             IF body.kind = "raise" /\ body.exc \in DT_caught
             THEN Return(<<"[x] Error searching Wikipedia: ", ExcText(body.exc)>>)
             ELSE body,
             <<>>)

----------------------------------------------------------------------------
(* src/local_multiple_tools.py: the API tools catch requests.RequestException *)

\* units = "m" if celsius else "f"
LM_units(celsius) == IF PyTruthy(celsius) THEN "m" ELSE "f"

\* a variant that labels Fahrenheit only for celsius False ("if celsius is False")
LM_temp_unit_unless_false(celsius) == IF celsius.k = "bool" /\ ~celsius.v THEN "F" ELSE "C"

\* temp_unit = "C" if celsius else "F", after the degree sign
LM_temp_unit(celsius) == IF PyTruthy(celsius) THEN "C" ELSE "F"

LM_get_weather(location, celsius, env, http) ==
    LET api_key == Getenv(env, "WEATHERSTACK_API_KEY")
        units == LM_units(celsius)
        url == <<"http://api.weatherstack.com/current?access_key=">> \o PyStr(api_key)
                   \o <<"&query=", location, "&units=", units>>
        g == HttpGet(url, http)
        data == g.r.val
        hasError == PyContains("error", data)
        info == PyPath(data, <<"error", "info">>)
        current == PyGetItem(data, "current")
        location_info == PyGetItem(data, "location")
        temp_unit == LM_temp_unit(celsius)
        name == PyGetItem(location_info.val, "name")
        country == PyGetItem(location_info.val, "country")
        descriptions == PyGetItem(current.val, "weather_descriptions")
        description == PyFirst(descriptions.val)
        temperature == PyGetItem(current.val, "temperature")
        feelslike == PyGetItem(current.val, "feelslike")
        humidity == PyGetItem(current.val, "humidity")
        steps == <<current, location_info, name, country, descriptions, description,
                   temperature, feelslike, humidity>>
        body ==
            IF ~g.r.ok THEN Raise(g.r.exc)
            ELSE IF ~hasError.ok THEN Raise(hasError.exc)
            ELSE IF hasError.val
                 THEN IF info.ok
                      THEN Return(<<"Error fetching weather data: ">> \o PyStr(info.val))
                      ELSE Raise(info.exc)
            ELSE IF FirstErr(steps) # "" THEN Raise(FirstErr(steps))
            ELSE Return(<<"Weather in ">> \o PyStr(name.val) \o <<", ">>
                        \o PyStr(country.val) \o <<": ">>
                        \o PyStr(description.val) \o <<", Temperature: ">>
                        \o PyStr(temperature.val) \o <<temp_unit, ", Feels like: ">>
                        \o PyStr(feelslike.val) \o <<temp_unit, ", Humidity: ">>
                        \o PyStr(humidity.val) \o <<"%">>)
    IN  IF KeyMissing(api_key)
        THEN Done(<<>>,
                  Return(<<"Weather API key not configured. Please add WEATHERSTACK_API_KEY to your .env file.">>),
                  <<>>)
        ELSE Done(g.reqs,
                  IF body.kind = "raise" /\ body.exc \in LM_caught
                  THEN Return(<<"Error fetching weather data: ", ExcText(body.exc)>>)
                  ELSE body,
                  <<>>)

\* a variant of the second test of api_key that asks whether the variable is set
LM_paid_format_if_set(api_key) == api_key # JNull

\* `if api_key:` before the request, choosing the endpoint
LM_paid_endpoint(api_key) == PyTruthy(api_key)

\* `if api_key:` after the request, choosing the format that is parsed
LM_paid_format(api_key) == PyTruthy(api_key)

LM_convert_currency(amount, from_currency, to_currency, env, http) ==
    LET api_key == Getenv(env, "EXCHANGE_API_KEY")
        paid == LM_paid_endpoint(api_key)
        url == IF paid
               THEN <<"https://v6.exchangerate-api.com/v6/">> \o PyStr(api_key)
                        \o <<"/pair/", from_currency, "/", to_currency>>
               ELSE <<"https://api.exchangerate-api.com/v4/latest/", from_currency>>
        g == HttpGet(url, http)
        data == g.r.val
        \* paid API response format
        hasResult == PyContains("result", data)
        result == PyGetItem(data, "result")
        pairRate == PyGetItem(data, "conversion_rate")
        pairConv == PyMulFormatF(amount, pairRate.val, 2)
        errorType == PyGet(data, "error-type", JStr(<<"Unknown error">>))
        paidBody ==
            IF ~hasResult.ok THEN Raise(hasResult.exc)
            ELSE IF hasResult.val /\ ~result.ok THEN Raise(result.exc)
            ELSE IF hasResult.val /\ result.val.k = "str" /\ result.val.v = <<"success">>
                 THEN IF FirstErr(<<pairRate, pairConv>>) # ""
                      THEN Raise(FirstErr(<<pairRate, pairConv>>))
                      ELSE Return(<<ToString(amount), " ", from_currency, " = ", pairConv.val,
                                    " ", to_currency, " (Rate: ">> \o PyStr(pairRate.val)
                                  \o <<")">>)
            ELSE IF errorType.ok THEN Return(<<"Error: ">> \o PyStr(errorType.val))
                 ELSE Raise(errorType.exc)
        \* free API response format
        hasRates == PyContains("rates", data)
        rates == PyGetItem(data, "rates")
        hasTo == PyContains(to_currency, rates.val)
        rate == PyGetItem(rates.val, to_currency)
        conv == PyMulFormatF(amount, rate.val, 2)
        notFound == Return(<<"Error: Could not find exchange rate for ", from_currency,
                             " to ", to_currency>>)
        freeBody ==
            IF ~hasRates.ok THEN Raise(hasRates.exc)
            ELSE IF ~hasRates.val THEN notFound
            ELSE IF ~rates.ok THEN Raise(rates.exc)
            ELSE IF ~hasTo.ok THEN Raise(hasTo.exc)
            ELSE IF ~hasTo.val THEN notFound
            ELSE IF FirstErr(<<rate, conv>>) # "" THEN Raise(FirstErr(<<rate, conv>>))
            ELSE Return(<<ToString(amount), " ", from_currency, " = ", conv.val,
                          " ", to_currency, " (Rate: ">> \o PyStr(rate.val) \o <<")">>)
        body == IF ~g.r.ok THEN Raise(g.r.exc)
                ELSE IF LM_paid_format(api_key) THEN paidBody ELSE freeBody
    IN  Done(g.reqs,
             IF body.kind = "raise" /\ body.exc \in LM_caught
             THEN Return(<<"Error fetching exchange rate: ", ExcText(body.exc)>>)
             ELSE body,
             <<>>)

LM_get_joke(http) ==
    LET url == <<"https://v2.jokeapi.dev/joke/Any?safe-mode&type=single">>
        g == HttpGet(url, http)
        data == g.r.val
        error == PyGetItem(data, "error")
        type == PyGetItem(data, "type")
        joke == PyGetItem(data, "joke")
        setup == PyGetItem(data, "setup")
        delivery == PyGetItem(data, "delivery")
        body ==
            IF ~g.r.ok THEN Raise(g.r.exc)
            ELSE IF ~error.ok THEN Raise(error.exc)
            ELSE IF PyTruthy(error.val)
                 THEN Return(<<"Sorry, couldn't fetch a joke right now.">>)
            ELSE IF ~type.ok THEN Raise(type.exc)
            ELSE IF type.val.k = "str" /\ type.val.v = <<"single">>
                 THEN IF joke.ok THEN ReturnRaw(joke.val) ELSE Raise(joke.exc)
            ELSE IF FirstErr(<<setup, delivery>>) # ""
                 THEN Raise(FirstErr(<<setup, delivery>>))
            ELSE Return(PyStr(setup.val) \o <<" - ">> \o PyStr(delivery.val))
    IN  Done(g.reqs,
             IF body.kind = "raise" /\ body.exc \in LM_caught
             THEN Return(<<"Error fetching joke: ", ExcText(body.exc)>>)
             ELSE body,
             <<>>)

LM_get_random_fact(env, http) ==
    LET url == <<"https://api.api-ninjas.com/v1/facts">>
        g == HttpGet(url, http)
        data == g.r.val
        length == PyLen(data)
        first == PyFirst(data)
        fact == PyGetItem(first.val, "fact")
        body ==
            IF ~g.r.ok THEN Raise(g.r.exc)
            ELSE IF ~PyTruthy(data)
                 THEN Return(<<"Sorry, couldn't fetch a random fact right now.">>)
            ELSE IF ~length.ok THEN Raise(length.exc)
            ELSE IF ~(length.val > 0)
                 THEN Return(<<"Sorry, couldn't fetch a random fact right now.">>)
            ELSE IF FirstErr(<<first, fact>>) # "" THEN Raise(FirstErr(<<first, fact>>))
            ELSE ReturnRaw(fact.val)
    IN  Done(g.reqs,
             IF body.kind = "raise" /\ body.exc \in LM_caught
             THEN Return(<<"Error fetching random fact: ", ExcText(body.exc)>>)
             ELSE body,
             <<>>)

LM_search_wikipedia(query, http) ==
    LET url == <<"https://en.wikipedia.org/api/rest_v1/page/summary/">> \o query
        g == HttpGet(url, http)
        data == g.r.val
        hasExtract == PyContains("extract", data)
        extract == PyGetItem(data, "extract")
        body ==
            IF ~g.r.ok THEN Raise(g.r.exc)
            ELSE IF ~hasExtract.ok THEN Raise(hasExtract.exc)
            ELSE IF hasExtract.val
                 THEN IF extract.ok
                      THEN Return(<<"Wikipedia summary for '">> \o query \o <<"': ">>
                                  \o PyStr(extract.val))
                      ELSE Raise(extract.exc)
            ELSE Return(<<"No Wikipedia summary found for '">> \o query \o <<"'.">>)
    IN  Done(g.reqs,
             IF body.kind = "raise" /\ body.exc \in LM_caught
             THEN Return(<<"Error searching Wikipedia: ", ExcText(body.exc)>>)
             ELSE body,
             <<>>)

----------------------------------------------------------------------------
(* Python's eval on an arithmetic expression: tokenizer, grammar, evaluation *)
(* A value is a number, the empty tuple [t |-> "tuple"], Ellipsis           *)
(* [t |-> "ellipsis"], or [t |-> "error", exc |-> class] once a step of the  *)
(* evaluation has raised.  A syntax error is found before anything runs.     *)

Digits == <<"0", "1", "2", "3", "4", "5", "6", "7", "8", "9">>
IsDigit(c) == c \in Range(Digits)
DigitVal(c) == (CHOOSE i \in 1..Len(Digits) : Digits[i] = c) - 1

LowerLetters ==
    <<"a", "b", "c", "d", "e", "f", "g", "h", "i", "j", "k", "l", "m",
      "n", "o", "p", "q", "r", "s", "t", "u", "v", "w", "x", "y", "z">>
UpperLetters ==
    <<"A", "B", "C", "D", "E", "F", "G", "H", "I", "J", "K", "L", "M",
      "N", "O", "P", "Q", "R", "S", "T", "U", "V", "W", "X", "Y", "Z">>
IsNameStart(c) == c \in Range(LowerLetters) \cup Range(UpperLetters) \cup {"_"}

\* str.lower(), character by character
Lower(cs) ==
    [i \in 1..Len(cs) |->
        IF cs[i] \in Range(UpperLetters)
        THEN LowerLetters[CHOOSE k \in 1..Len(UpperLetters) : UpperLetters[k] = cs[i]]
        ELSE cs[i]]

\* term in text, for two character sequences
IsSubstring(term, text) ==
    \E i \in 1..(Len(text) - Len(term) + 1) : SubSeq(text, i, i + Len(term) - 1) = term

\* the first position from i on that holds no digit
RECURSIVE ScanDigits(_, _)
ScanDigits(cs, i) ==
    IF i <= Len(cs) /\ IsDigit(cs[i]) THEN ScanDigits(cs, i + 1) ELSE i

\* the first position from i on that holds no name character
RECURSIVE ScanName(_, _)
ScanName(cs, i) ==
    IF i <= Len(cs) /\ (IsNameStart(cs[i]) \/ IsDigit(cs[i])) THEN ScanName(cs, i + 1) ELSE i

\* the value of the digits cs[i..j-1]
RECURSIVE DigitsValue(_, _, _)
DigitsValue(cs, i, j) ==
    IF j <= i THEN 0 ELSE 10 * DigitsValue(cs, i, j - 1) + DigitVal(cs[j - 1])

Tok(t, s, v) == [t |-> t, s |-> s, v |-> v]
OpTok(s) == Tok("op", s, PyInt(0))
BadTok == Tok("bad", "", PyInt(0))

At(cs, i) == IF i >= 1 /\ i <= Len(cs) THEN cs[i] ELSE ""

\* The tokens of cs from position from on.  A number directly followed by a name
\* character is a bad token (the suffixes e, j, x, o, b of other literals and the
\* keyword suffixes are outside the inputs considered).
RECURSIVE Lex(_, _)
Lex(cs, from) ==
    With(from, LAMBDA i :
        IF i > Len(cs) THEN <<>>
        ELSE LET c == cs[i]
                 j == ScanDigits(cs, i)            \* end of the integer part
                 k == ScanDigits(cs, j + 1)        \* end of the fraction after a '.' at j
             IN  CASE c = " " -> Lex(cs, i + 1)
                   [] IsDigit(c) /\ At(cs, j) = "." ->
                         IF IsNameStart(At(cs, k)) THEN <<BadTok>>
                         ELSE <<Tok("num", "",
                                    PyFloat(DigitsValue(cs, i, j) * IntPow(10, k - j - 1)
                                                + DigitsValue(cs, j + 1, k),
                                            IntPow(10, k - j - 1)))>> \o Lex(cs, k)
                   [] IsDigit(c) /\ At(cs, j) # "." ->
                         IF IsNameStart(At(cs, j)) THEN <<BadTok>>
                         ELSE IF c = "0" /\ DigitsValue(cs, i, j) # 0
                              THEN <<BadTok>>      \* leading zeros in a decimal integer
                         ELSE <<Tok("num", "", PyInt(DigitsValue(cs, i, j)))>> \o Lex(cs, j)
                   [] c = "." /\ IsDigit(At(cs, i + 1)) ->
                         IF IsNameStart(At(cs, ScanDigits(cs, i + 1))) THEN <<BadTok>>
                         ELSE <<Tok("num", "",
                                    PyFloat(DigitsValue(cs, i + 1, ScanDigits(cs, i + 1)),
                                            IntPow(10, ScanDigits(cs, i + 1) - i - 1)))>>
                                  \o Lex(cs, ScanDigits(cs, i + 1))
                   [] c = "." /\ ~IsDigit(At(cs, i + 1)) ->
                         IF At(cs, i + 1) = "." /\ At(cs, i + 2) = "."
                         THEN <<Tok("ellipsis", "", PyInt(0))>> \o Lex(cs, i + 3)
                         ELSE <<OpTok(".")>> \o Lex(cs, i + 1)
                   [] IsNameStart(c) ->
                         <<Tok("name", "", PyInt(0))>> \o Lex(cs, ScanName(cs, i))
                   [] c \in {"*", "/"} ->
                         IF At(cs, i + 1) = c THEN <<OpTok(c \o c)>> \o Lex(cs, i + 2)
                         ELSE <<OpTok(c)>> \o Lex(cs, i + 1)
                   [] c \in {"+", "-", "(", ")"} -> <<OpTok(c)>> \o Lex(cs, i + 1)
                   [] OTHER -> <<BadTok>>)

ErrV(e) == [t |-> "error", exc |-> e]
TupleV == [t |-> "tuple"]
EllipsisV == [t |-> "ellipsis"]
IsNum(v) == v.t \in {"int", "float"}

\* of a Python evaluation step on numbers to a value
Lift(r) == IF r.ok THEN r.val ELSE ErrV(r.exc)

\* a op b: the left operand is evaluated first, then the right, then the operation
Binary(op, a, b) ==
    IF a.t = "error" THEN a
    ELSE IF b.t = "error" THEN b
    ELSE IF IsNum(a) /\ IsNum(b)
         THEN CASE op = "+" -> NumAdd(a, b)
                [] op = "-" -> NumSub(a, b)
                [] op = "*" -> NumMul(a, b)
                [] op = "/" -> Lift(NumTrueDiv(a, b))
                [] op = "//" -> Lift(NumFloorDiv(a, b))
                [] op = "**" -> Lift(NumPow(a, b))
    ELSE IF op = "+" /\ a.t = "tuple" /\ b.t = "tuple" THEN TupleV
    ELSE IF op = "*" /\ {a.t, b.t} = {"tuple", "int"} THEN TupleV
    ELSE ErrV("TypeError")

Unary(op, a) ==
    IF a.t = "error" THEN a
    ELSE IF IsNum(a) THEN (IF op = "-" THEN NumNeg(a) ELSE a)
    ELSE ErrV("TypeError")

\* f(arg): no value of the language is callable
CallValue(f, arg) ==
    IF f.t = "error" THEN f
    ELSE IF arg.t = "error" THEN arg
    ELSE ErrV("TypeError")

\* f.name: the names of the inputs considered are attributes of no value
AttrValue(f) == IF f.t = "error" THEN f ELSE ErrV("AttributeError")

P(ok, v, i) == [ok |-> ok, v |-> v, i |-> i]
Fail == P(FALSE, ErrV("SyntaxError"), 0)
IsOp(ts, i, ops) == i <= Len(ts) /\ ts[i].t = "op" /\ ts[i].s \in ops

RECURSIVE ParseSum(_, _)
RECURSIVE SumRest(_, _, _)
RECURSIVE ParseTerm(_, _)
RECURSIVE TermRest(_, _, _)
RECURSIVE ParseFactor(_, _)
RECURSIVE ParsePower(_, _)
RECURSIVE ParsePrimary(_, _)
RECURSIVE CallRest(_, _, _)
RECURSIVE ParseAtom(_, _)

\* atom: NUMBER | NAME | '...' | '(' ')' | '(' sum ')'
ParseAtom(ts, i) ==
    IF i > Len(ts) THEN Fail
    ELSE CASE ts[i].t = "num" -> P(TRUE, ts[i].v, i + 1)
           [] ts[i].t = "name" -> P(TRUE, ErrV("NameError"), i + 1)
           [] ts[i].t = "ellipsis" -> P(TRUE, EllipsisV, i + 1)
           [] ts[i].t = "op" /\ ts[i].s = "(" ->
                 IF IsOp(ts, i + 1, {")"}) THEN P(TRUE, TupleV, i + 2)
                 ELSE With(ParseSum(ts, i + 1),
                           LAMBDA r : IF r.ok /\ IsOp(ts, r.i, {")"})
                                      THEN P(TRUE, r.v, r.i + 1)
                                      ELSE Fail)
           [] OTHER -> Fail

\* primary: atom ( '(' [ ['*' | '**'] sum ] ')' | '.' NAME )*
CallRest(ts, f, i) ==
    IF IsOp(ts, i, {"."})
    THEN IF i + 1 <= Len(ts) /\ ts[i + 1].t = "name"
         THEN With(AttrValue(f), LAMBDA v : CallRest(ts, v, i + 2))
         ELSE Fail
    ELSE IF ~IsOp(ts, i, {"("}) THEN P(TRUE, f, i)
    ELSE IF IsOp(ts, i + 1, {")"})
         THEN With(CallValue(f, TupleV), LAMBDA v : CallRest(ts, v, i + 2))
    ELSE With(ParseSum(ts, IF IsOp(ts, i + 1, {"*", "**"}) THEN i + 2 ELSE i + 1),
              LAMBDA r : IF r.ok /\ IsOp(ts, r.i, {")"})
                         THEN With(CallValue(f, r.v), LAMBDA v : CallRest(ts, v, r.i + 1))
                         ELSE Fail)

ParsePrimary(ts, i) ==
    With(ParseAtom(ts, i), LAMBDA a : IF a.ok THEN CallRest(ts, a.v, a.i) ELSE Fail)

\* power: primary [ '**' factor ]
ParsePower(ts, i) ==
    With(ParsePrimary(ts, i),
         LAMBDA p : IF ~p.ok THEN Fail
                    ELSE IF IsOp(ts, p.i, {"**"})
                         THEN With(ParseFactor(ts, p.i + 1),
                                   LAMBDA f : IF f.ok
                                              THEN P(TRUE, Binary("**", p.v, f.v), f.i)
                                              ELSE Fail)
                    ELSE p)

\* factor: ('+' | '-') factor | power
ParseFactor(ts, i) ==
    IF IsOp(ts, i, {"+", "-"})
    THEN With(ParseFactor(ts, i + 1),
              LAMBDA f : IF f.ok THEN P(TRUE, Unary(ts[i].s, f.v), f.i) ELSE Fail)
    ELSE ParsePower(ts, i)

\* term: factor ( ('*' | '/' | '//') factor )*
TermRest(ts, left, i) ==
    IF ~IsOp(ts, i, {"*", "/", "//"}) THEN P(TRUE, left, i)
    ELSE With(ParseFactor(ts, i + 1),
              LAMBDA f : IF f.ok
                         THEN With(Binary(ts[i].s, left, f.v),
                                   LAMBDA v : TermRest(ts, v, f.i))
                         ELSE Fail)

ParseTerm(ts, i) ==
    With(ParseFactor(ts, i), LAMBDA f : IF f.ok THEN TermRest(ts, f.v, f.i) ELSE Fail)

\* sum: term ( ('+' | '-') term )*
SumRest(ts, left, i) ==
    IF ~IsOp(ts, i, {"+", "-"}) THEN P(TRUE, left, i)
    ELSE With(ParseTerm(ts, i + 1),
              LAMBDA t : IF t.ok
                         THEN With(Binary(ts[i].s, left, t.v),
                                   LAMBDA v : SumRest(ts, v, t.i))
                         ELSE Fail)

ParseSum(ts, i) ==
    With(ParseTerm(ts, i), LAMBDA t : IF t.ok THEN SumRest(ts, t.v, t.i) ELSE Fail)

\* eval(expression): Ok(value), or Err(the exception it raises)
PyEval(expression) ==
    With(Lex(expression, 1),
         LAMBDA ts : With(ParseSum(ts, 1),
                          LAMBDA r : IF ~r.ok \/ r.i # Len(ts) + 1 THEN Err("SyntaxError")
                                     ELSE IF r.v.t = "error" THEN Err(r.v.exc)
                                     ELSE Ok(r.v)))

\* str(value)
ValueStr(v) ==
    CASE IsNum(v) -> NumStr(v)
      [] v.t = "tuple" -> "()"
      [] v.t = "ellipsis" -> "Ellipsis"

----------------------------------------------------------------------------
(* The calculators *)

\* set('0123456789+-*/.() ')
allowed_chars == Range(Digits) \cup {"+", "-", "*", "/", ".", "(", ")", " "}

dangerous_terms ==
    <<<<"_", "_">>, <<"i", "m", "p", "o", "r", "t">>, <<"e", "x", "e", "c">>,
      <<"e", "v", "a", "l">>, <<"o", "p", "e", "n">>, <<"f", "i", "l", "e">>>>

\* all(c in allowed_chars for c in expression)
AllAllowed(expression) == \A i \in 1..Len(expression) : expression[i] \in allowed_chars

\* src/demo_tools.py
DT_calculate(expression) ==
    IF ~AllAllowed(expression)
    THEN DoneCalc(Return(<<"[x] Invalid characters in expression. Only numbers and basic math operators are allowed.">>),
                  <<>>)
    ELSE IF \E t \in 1..Len(dangerous_terms) : IsSubstring(dangerous_terms[t], Lower(expression))
    THEN DoneCalc(Return(<<"[x] Invalid expression detected.">>), <<>>)
    ELSE LET result == PyEval(expression)
         IN  DoneCalc(IF result.ok
                      THEN Return(<<"[calc] ">> \o expression \o <<" = ", ValueStr(result.val)>>)
                      ELSE IF result.exc \in DT_caught
                           THEN Return(<<"[x] Error calculating '">> \o expression
                                       \o <<"': ", ExcText(result.exc)>>)
                           ELSE Raise(result.exc),
                      <<expression>>)

\* a variant without the try block around the evaluation
LM_calculate_unguarded(expression) ==
    IF ~AllAllowed(expression)
    THEN DoneCalc(Return(<<"Error: Invalid characters in expression. Only numbers and basic math operators are allowed.">>),
                  <<>>)
    ELSE LET result == PyEval(expression)
         IN  DoneCalc(IF result.ok
                      THEN Return(expression \o <<" = ", ValueStr(result.val)>>)
                      ELSE Raise(result.exc),
                      <<expression>>)

\* src/local_multiple_tools.py: the handler names Exception here
LM_calculate(expression) ==
    IF ~AllAllowed(expression)
    THEN DoneCalc(Return(<<"Error: Invalid characters in expression. Only numbers and basic math operators are allowed.">>),
                  <<>>)
    ELSE LET result == PyEval(expression)
         IN  DoneCalc(IF result.ok
                      THEN Return(expression \o <<" = ", ValueStr(result.val)>>)
                      ELSE Return(<<"Error calculating '">> \o expression
                                  \o <<"': ", ExcText(result.exc)>>),
                      <<expression>>)

\* src/my_agent_demo.py: eval(expression, {"__builtins__": {}}, {})
AD_calculate(expression) ==
    LET result == PyEval(expression)
    IN  DoneCalc(IF result.ok
                 THEN Return(<<"The result of ">> \o expression
                             \o <<" is ", ValueStr(result.val)>>)
                 ELSE Return(<<"Error calculating ">> \o expression
                             \o <<": ", ExcText(result.exc)>>),
                 <<expression>>)

\* src/my_gradio_demo.py
GD_calculate(expression) ==
    LET result == PyEval(expression)
    IN  DoneCalc(IF result.ok THEN Return(<<"Result: ", ValueStr(result.val)>>)
                 ELSE Return(<<"Error: ", ExcText(result.exc)>>),
                 <<expression>>)

\* src/simple_demo.py
SD_simple_calculator(expression) ==
    LET result == PyEval(expression)
    IN  DoneCalc(IF result.ok THEN Return(<<"Result: ", ValueStr(result.val)>>)
                 ELSE Return(<<"Error: ", ExcText(result.exc)>>),
                 <<expression>>)

----------------------------------------------------------------------------
(* The inputs considered: environment, HTTP outcomes, arguments *)

S(text) == JStr(<<text>>)
N(n) == JNum(PyInt(n))
F(n, d) == JNum(PyFloat(n, d))

\* a text that stdout's encoding cannot encode (a lone surrogate from a \\ud800 escape)
Unencodable == "\\ud800"

\* values of an environment variable: unset, empty, set
EnvValues == <<JNull, JStr(<<>>), S("secret-key")>>

Env(weather, exchange, ninjas) ==
    [WEATHERSTACK_API_KEY |-> weather, EXCHANGE_API_KEY |-> exchange, API_NINJAS_KEY |-> ninjas]

\* bodies the exchange-rate endpoints can answer with (latest-rates and pair formats)
CurrencyBodies ==
    <<JDict([base |-> S("USD"), rates |-> JDict([EUR |-> F(85, 100), GBP |-> F(79, 100)])]),
      JDict([base |-> S("USD"), rates |-> JDict([GBP |-> F(79, 100)])]),
      JDict([result |-> S("error")]),
      JDict([rates |-> JDict([EUR |-> S("n/a")])]),
      JDict([rates |-> JNull]),
      JNull,
      JList(<<S("rates")>>),
      JDict([result |-> S("success"), conversion_rate |-> F(85, 100)]),
      JDict(("result" :> S("error")) @@ ("error-type" :> S("invalid-key"))),
      JDict([result |-> S("success")]),
      JDict([result |-> S("success"), conversion_rate |-> S("n/a")]),
      JDict([result |-> S("success"), conversion_rate |-> F(1, 2),
             rates |-> JDict([EUR |-> F(85, 100)])])>>

WeatherBodies ==
    <<JDict([location |-> JDict([name |-> S("London"), country |-> S("United Kingdom")]),
             current |-> JDict([weather_descriptions |-> JList(<<S("Sunny")>>),
                                temperature |-> N(68), feelslike |-> N(66),
                                humidity |-> N(50), wind_speed |-> N(10)])]),
      JDict([success |-> JBool(FALSE),
             error |-> JDict([code |-> N(101), info |-> S("invalid access key")])]),
      JDict([error |-> S("bad request")]),
      JDict([location |-> JDict([name |-> S("London"), country |-> S("United Kingdom")])]),
      JDict([location |-> JDict([name |-> S("London"), country |-> S("United Kingdom")]),
             current |-> JDict([weather_descriptions |-> JList(<<>>),
                                temperature |-> N(68), feelslike |-> N(66),
                                humidity |-> N(50), wind_speed |-> N(10)])]),
      JDict([location |-> JDict([name |-> S(Unencodable), country |-> S("United Kingdom")]),
             current |-> JDict([weather_descriptions |-> JList(<<S("Sunny")>>),
                                temperature |-> N(68), feelslike |-> N(66),
                                humidity |-> N(50)])]),
      JDict(<<>>),
      JNull>>

JokeBodies ==
    <<JDict([error |-> JBool(FALSE), type |-> S("single"), joke |-> S("api joke")]),
      JDict([error |-> JBool(FALSE), type |-> S("twopart"), setup |-> S("api setup"),
             delivery |-> S("api delivery")]),
      JDict([error |-> JBool(TRUE), message |-> S("No matching joke found")]),
      JDict([type |-> S("single"), joke |-> S("api joke")]),
      JDict([error |-> JBool(FALSE)]),
      JDict([error |-> JBool(FALSE), type |-> S("single")]),
      JDict([error |-> JBool(FALSE), type |-> S("single"), joke |-> JNull]),
      JDict([error |-> JBool(FALSE), type |-> S("single"), joke |-> S(Unencodable)]),
      JList(<<>>)>>

FactBodies ==
    <<JDict([id |-> S("f1"), text |-> S("api fact")]),
      JDict([id |-> S("f1")]),
      JDict([text |-> JNull]),
      JDict([text |-> S(Unencodable)]),
      JStr(<<"some ", "text">>),
      JList(<<S("text")>>),
      JNull,
      JList(<<JDict([fact |-> S("api fact")])>>),
      JList(<<JDict(<<>>)>>),
      JList(<<JDict([fact |-> JNull])>>),
      JList(<<>>),
      N(5)>>

WikipediaBodies ==
    <<JDict([title |-> S("AI"), extract |-> S("api extract"),
             content_urls |-> JDict([desktop |-> JDict([page |-> S("https://en.wikipedia.org/wiki/AI")])])]),
      JDict([extract |-> S("api extract")]),
      JDict([title |-> S("AI"), extract |-> S("")]),
      JDict([title |-> S("Not found.")]),
      JDict([extract |-> S("api extract"), content_urls |-> JNull]),
      JDict([extract |-> S(Unencodable)]),
      JList(<<S("extract")>>),
      JNull>>

FailureStatuses == <<"conn_error", "timeout", "http_error", "not_json", "not_json_old">>

\* the outcomes of the one HTTP exchange: each failure, and success with each body
HttpOutcomes(bodies) ==
    [i \in 1..Len(FailureStatuses) |-> [status |-> FailureStatuses[i], data |-> JNull]]
        \o [i \in 1..Len(bodies) |-> [status |-> "ok", data |-> bodies[i]]]

Celsius == <<JBool(TRUE), JBool(FALSE), JNull>>
Queries == <<<<"Artificial", " ", "Intelligence">>, <<"Python_programming_language">>>>

\* the characters expressions are made of, and their greatest length
ExprChars == {"0", "2", "/", "*", "-", "(", ")", " ", "a"}
MaxExprLen == 3
Expressions == UNION {[1..n -> ExprChars] : n \in 0..MaxExprLen}

Call(file, tool, args, env, http, rnd) ==
    [file |-> file, tool |-> tool, args |-> args, env |-> env, http |-> http, rnd |-> rnd]

NoEnv == Env(JNull, JNull, JNull)
NoHttp == [status |-> "none", data |-> JNull]

----------------------------------------------------------------------------
(* One tool invocation: the arguments and the environment are fixed when the *)
(* call is made, and the action of the tool runs the whole function.         *)

CurrencyArgs == [amount |-> 1000, from_currency |-> "USD", to_currency |-> "EUR"]
WeatherArgs(c) == [location |-> "London", celsius |-> c]
QueryArgs(q) == [query |-> q]
ExprArgs(e) == [expression |-> e]

Calculators ==
    {<<"demo_tools", "calculate">>, <<"local_multiple_tools", "calculate">>,
     <<"my_agent_demo", "calculate">>, <<"my_gradio_demo", "calculate">>,
     <<"simple_demo", "simple_calculator">>}

StartCall ==
    \/ \E h \in 1..Len(HttpOutcomes(CurrencyBodies)) :
          call = Call("demo_tools", "convert_currency", CurrencyArgs, NoEnv,
                      HttpOutcomes(CurrencyBodies)[h], 0)
    \/ \E h \in 1..Len(HttpOutcomes(CurrencyBodies)), k \in 1..Len(EnvValues) :
          call = Call("local_multiple_tools", "convert_currency", CurrencyArgs,
                      Env(JNull, EnvValues[k], JNull), HttpOutcomes(CurrencyBodies)[h], 0)
    \/ \E h \in 1..Len(HttpOutcomes(WeatherBodies)), k \in 1..Len(EnvValues), c \in 1..2 :
          call = Call("demo_tools", "get_weather", WeatherArgs(Celsius[c]),
                      Env(EnvValues[k], JNull, JNull), HttpOutcomes(WeatherBodies)[h], 0)
    \/ \E h \in 1..Len(HttpOutcomes(WeatherBodies)), k \in 1..Len(EnvValues),
           c \in 1..Len(Celsius) :
          call = Call("local_multiple_tools", "get_weather", WeatherArgs(Celsius[c]),
                      Env(EnvValues[k], JNull, JNull), HttpOutcomes(WeatherBodies)[h], 0)
    \/ \E h \in 1..Len(HttpOutcomes(JokeBodies)), r \in 1..Len(DT_fallback_jokes) :
          call = Call("demo_tools", "get_joke", <<>>, NoEnv, HttpOutcomes(JokeBodies)[h], r)
    \/ \E h \in 1..Len(HttpOutcomes(JokeBodies)) :
          call = Call("local_multiple_tools", "get_joke", <<>>, NoEnv,
                      HttpOutcomes(JokeBodies)[h], 0)
    \/ \E h \in 1..Len(HttpOutcomes(FactBodies)), r \in 1..Len(DT_fallback_facts) :
          call = Call("demo_tools", "get_random_fact", <<>>, NoEnv,
                      HttpOutcomes(FactBodies)[h], r)
    \/ \E h \in 1..Len(HttpOutcomes(FactBodies)), k \in 1..Len(EnvValues) :
          call = Call("local_multiple_tools", "get_random_fact", <<>>,
                      Env(JNull, JNull, EnvValues[k]), HttpOutcomes(FactBodies)[h], 0)
    \/ \E h \in 1..Len(HttpOutcomes(WikipediaBodies)), q \in 1..Len(Queries),
           f \in {"demo_tools", "local_multiple_tools"} :
          call = Call(f, "search_wikipedia", QueryArgs(Queries[q]), NoEnv,
                      HttpOutcomes(WikipediaBodies)[h], 0)
    \/ \E e \in Expressions, ft \in Calculators :
          call = Call(ft[1], ft[2], ExprArgs(e), NoEnv, NoHttp, 0)

Init ==
    /\ StartCall
    /\ out = Pending
    /\ reqs = <<>>
    /\ stdout = <<>>
    /\ evald = <<>>
    /\ demoPc = "idle"
    /\ demoLog = <<>>
    /\ runs = <<>>

IsPending(file, tool) == out.kind = "pending" /\ call.file = file /\ call.tool = tool

Apply(r) ==
    /\ out' = r.out
    /\ reqs' = r.reqs
    /\ stdout' = r.stdout
    /\ evald' = r.evald
    /\ UNCHANGED <<call, demoPc, demoLog, runs>>

Call_DT_convert_currency ==
    /\ IsPending("demo_tools", "convert_currency")
    /\ Apply(DT_convert_currency(call.args.amount, call.args.from_currency, call.args.to_currency, call.http))

Call_DT_get_weather ==
    /\ IsPending("demo_tools", "get_weather")
    /\ Apply(DT_get_weather(call.args.location, call.args.celsius, call.env, call.http))

Call_DT_get_joke ==
    /\ IsPending("demo_tools", "get_joke")
    /\ Apply(DT_get_joke(call.http, call.rnd))

Call_DT_get_random_fact ==
    /\ IsPending("demo_tools", "get_random_fact")
    /\ Apply(DT_get_random_fact(call.http, call.rnd))

Call_DT_search_wikipedia ==
    /\ IsPending("demo_tools", "search_wikipedia")
    /\ Apply(DT_search_wikipedia(call.args.query, call.http))

Call_DT_calculate ==
    /\ IsPending("demo_tools", "calculate")
    /\ Apply(DT_calculate(call.args.expression))

Call_LM_get_weather ==
    /\ IsPending("local_multiple_tools", "get_weather")
    /\ Apply(LM_get_weather(call.args.location, call.args.celsius, call.env, call.http))

Call_LM_convert_currency ==
    /\ IsPending("local_multiple_tools", "convert_currency")
    /\ Apply(LM_convert_currency(call.args.amount, call.args.from_currency, call.args.to_currency, call.env, call.http))

Call_LM_get_joke ==
    /\ IsPending("local_multiple_tools", "get_joke")
    /\ Apply(LM_get_joke(call.http))

Call_LM_get_random_fact ==
    /\ IsPending("local_multiple_tools", "get_random_fact")
    /\ Apply(LM_get_random_fact(call.env, call.http))

Call_LM_search_wikipedia ==
    /\ IsPending("local_multiple_tools", "search_wikipedia")
    /\ Apply(LM_search_wikipedia(call.args.query, call.http))

Call_LM_calculate ==
    /\ IsPending("local_multiple_tools", "calculate")
    /\ Apply(LM_calculate(call.args.expression))

Call_AD_calculate ==
    /\ IsPending("my_agent_demo", "calculate")
    /\ Apply(AD_calculate(call.args.expression))

Call_GD_calculate ==
    /\ IsPending("my_gradio_demo", "calculate")
    /\ Apply(GD_calculate(call.args.expression))

Call_SD_simple_calculator ==
    /\ IsPending("simple_demo", "simple_calculator")
    /\ Apply(SD_simple_calculator(call.args.expression))

Next ==
    \/ Call_DT_convert_currency
    \/ Call_DT_get_weather
    \/ Call_DT_get_joke
    \/ Call_DT_get_random_fact
    \/ Call_DT_search_wikipedia
    \/ Call_DT_calculate
    \/ Call_LM_get_weather
    \/ Call_LM_convert_currency
    \/ Call_LM_get_joke
    \/ Call_LM_get_random_fact
    \/ Call_LM_search_wikipedia
    \/ Call_LM_calculate
    \/ Call_AD_calculate
    \/ Call_GD_calculate
    \/ Call_SD_simple_calculator

Spec == Init /\ [][Next]_vars

----------------------------------------------------------------------------
(* run_comprehensive_demo of src/demo_tools.py *)

\* the titles of demos, without their pictographs
DemoTitles ==
    <<"Currency Conversion", "Weather Check", "Programming Joke", "Random Fact",
      "Wikipedia Search", "Calculator">>

DemoExpression ==
    <<"(", "1", "0", "0", "0", " ", "*", " ", "0", ".", "8", "5", ")", " ", "+", " ",
      "1", "5", "0">>

\* demos[i]'s callable, run with the environment and the HTTP outcome it meets
DemoFunc(i, in) ==
    CASE i = 1 -> DT_convert_currency(1000, "USD", "EUR", in.http)
      [] i = 2 -> DT_get_weather("London", JBool(FALSE), in.env, in.http)
      [] i = 3 -> DT_get_joke(in.http, in.rnd)
      [] i = 4 -> DT_get_random_fact(in.http, in.rnd)
      [] i = 5 -> DT_search_wikipedia(<<"Artificial", " ", "Intelligence">>, in.http)
      [] i = 6 -> DT_calculate(DemoExpression)

\* print(text): raises when stdout cannot encode the text
PyPrint(tokens) ==
    IF Unencodable \in Range(tokens) THEN Err("UnicodeEncodeError") ELSE Ok(JNull)

In(env, http, rnd) == [env |-> env, http |-> http, rnd |-> rnd]
Failure(status) == [status |-> status, data |-> JNull]
Body(data) == [status |-> "ok", data |-> data]
WithKey == Env(S("secret-key"), JNull, JNull)

\* what each demo is run against
DemoInputs(i) ==
    CASE i = 1 -> <<In(NoEnv, Failure("timeout"), 0), In(NoEnv, Body(CurrencyBodies[1]), 0),
                    In(NoEnv, Body(CurrencyBodies[4]), 0)>>
      [] i = 2 -> <<In(NoEnv, NoHttp, 0), In(WithKey, Failure("timeout"), 0),
                    In(WithKey, Body(WeatherBodies[1]), 0),
                    In(WithKey, Body(WeatherBodies[6]), 0)>>
      [] i = 3 -> <<In(NoEnv, Failure("timeout"), 1), In(NoEnv, Failure("timeout"), 3),
                    In(NoEnv, Body(JokeBodies[1]), 1), In(NoEnv, Body(JokeBodies[8]), 1)>>
      [] i = 4 -> <<In(NoEnv, Failure("http_error"), 5), In(NoEnv, Body(FactBodies[1]), 1),
                    In(NoEnv, Body(FactBodies[2]), 2), In(NoEnv, Body(FactBodies[4]), 1)>>
      [] i = 5 -> <<In(NoEnv, Failure("conn_error"), 0), In(NoEnv, Body(WikipediaBodies[1]), 0),
                    In(NoEnv, Body(WikipediaBodies[6]), 0)>>
      [] i = 6 -> <<In(NoEnv, NoHttp, 0)>>

\* what demos[i]'s callable returns or raises, for each of its inputs
DemoResults ==
    [i \in 1..Len(DemoTitles) |->
        [k \in 1..Len(DemoInputs(i)) |->
            With(DemoInputs(i)[k], LAMBDA in : DemoFunc(i, in).out)]]

Pc(at, i) == [at |-> at, i |-> i]
LogEntry(title, status, text) == [title |-> title, status |-> status, text |-> text]

InitDemo ==
    /\ call = <<>>
    /\ out = Pending
    /\ reqs = <<>>
    /\ stdout = <<>>
    /\ evald = <<>>
    /\ demoPc = Pc("idle", 0)
    /\ demoLog = <<>>
    /\ runs = <<>>

\* the two header prints and the list of demos
DemoStart ==
    /\ demoPc.at = "idle"
    /\ demoPc' = Pc("loop", 1)
    /\ UNCHANGED <<call, out, reqs, stdout, evald, demoLog, runs>>

\* func() and print(result): the exception that leaves the two statements, "" for none
TryBody(r) ==
    IF r.kind = "raise" THEN r.exc
    ELSE IF ~PyPrint(r.val).ok THEN PyPrint(r.val).exc
    ELSE ""

\* a variant of the loop body without the try block: an exception leaves the function
DemoStepUnguarded ==
    /\ demoPc.at = "loop"
    /\ demoPc.i <= Len(DemoTitles)
    /\ \E k \in 1..Len(DemoInputs(demoPc.i)) :
          \E r \in {DemoResults[demoPc.i][k]} :
            \E raised \in {TryBody(r)} :
              IF raised = ""
              THEN /\ demoLog' = Append(demoLog, LogEntry(DemoTitles[demoPc.i], "result", r.val))
                   /\ demoPc' = Pc("loop", demoPc.i + 1)
              ELSE /\ demoLog' = Append(demoLog, LogEntry(DemoTitles[demoPc.i], "raised", <<>>))
                   /\ demoPc' = Pc("raised", demoPc.i)
    /\ UNCHANGED <<call, out, reqs, stdout, evald, runs>>

\* one pass of the loop body: the title, then func() and print(result) in the
\* try block, whose handler (except Exception) prints the error
DemoStep ==
    /\ demoPc.at = "loop"
    /\ demoPc.i <= Len(DemoTitles)
    /\ \E k \in 1..Len(DemoInputs(demoPc.i)) :
          \E r \in {DemoResults[demoPc.i][k]} :
            \E raised \in {TryBody(r)} :
              /\ raised \in Exceptions \cup {""}
              /\ demoLog' = Append(demoLog,
                                   IF raised = ""
                                   THEN LogEntry(DemoTitles[demoPc.i], "result", r.val)
                                   ELSE LogEntry(DemoTitles[demoPc.i], "error",
                                                 <<"[x] Error: ", ExcText(raised)>>))
    /\ demoPc' = Pc("loop", demoPc.i + 1)
    /\ UNCHANGED <<call, out, reqs, stdout, evald, runs>>

\* the prints after the loop, "Demo complete" among them
DemoFinish ==
    /\ demoPc.at = "loop"
    /\ demoPc.i > Len(DemoTitles)
    /\ demoPc' = Pc("done", demoPc.i)
    /\ UNCHANGED <<call, out, reqs, stdout, evald, demoLog, runs>>

NextDemo == DemoStart \/ DemoStep \/ DemoFinish

SpecDemo == InitDemo /\ [][NextDemo]_vars

\* the function runs to its end: every HTTP call is bounded by its timeout
SpecDemoFair == SpecDemo /\ WF_vars(NextDemo)

----------------------------------------------------------------------------
(* Two sequences of calls of the tools of src/demo_tools.py, side by side *)

DT_invoke(c) ==
    CASE c.tool = "convert_currency" ->
            DT_convert_currency(c.args.amount, c.args.from_currency, c.args.to_currency, c.http)
      [] c.tool = "get_weather" -> DT_get_weather(c.args.location, c.args.celsius, c.env, c.http)
      [] c.tool = "get_joke" -> DT_get_joke(c.http, c.rnd)
      [] c.tool = "get_random_fact" -> DT_get_random_fact(c.http, c.rnd)
      [] c.tool = "search_wikipedia" -> DT_search_wikipedia(c.args.query, c.http)
      [] c.tool = "calculate" -> DT_calculate(c.args.expression)

DTCall(tool, args, env, http, rnd) == Call("demo_tools", tool, args, env, http, rnd)

\* the calls the two sequences are made of
PairCalls ==
    <<DTCall("convert_currency", CurrencyArgs, NoEnv, Failure("timeout"), 0),
      DTCall("convert_currency", CurrencyArgs, NoEnv, Body(CurrencyBodies[1]), 0),
      DTCall("get_weather", WeatherArgs(JBool(TRUE)), NoEnv, NoHttp, 0),
      DTCall("get_weather", WeatherArgs(JBool(TRUE)), WithKey, Body(WeatherBodies[1]), 0),
      DTCall("get_weather", WeatherArgs(JBool(FALSE)), WithKey, Body(WeatherBodies[1]), 0),
      DTCall("get_joke", <<>>, NoEnv, Failure("timeout"), 1),
      DTCall("get_joke", <<>>, NoEnv, Failure("timeout"), 2),
      DTCall("get_joke", <<>>, NoEnv, Body(JokeBodies[1]), 1),
      DTCall("get_random_fact", <<>>, NoEnv, Body(FactBodies[2]), 1),
      DTCall("get_random_fact", <<>>, NoEnv, Body(FactBodies[2]), 3),
      DTCall("get_random_fact", <<>>, NoEnv, Body(FactBodies[1]), 1),
      DTCall("search_wikipedia", QueryArgs(Queries[1]), NoEnv, Body(WikipediaBodies[1]), 0),
      DTCall("search_wikipedia", QueryArgs(Queries[1]), NoEnv, Failure("http_error"), 0),
      DTCall("calculate", ExprArgs(<<"2", "/", "0">>), NoEnv, NoHttp, 0),
      DTCall("calculate", ExprArgs(<<"2", "*", "2">>), NoEnv, NoHttp, 0)>>

\* the greatest number of calls counted in a sequence
MaxCalls == 2

Run(n, idx, o) == [n |-> n, idx |-> idx, out |-> o]

\* a variant that keeps the last result of each tool and returns it again
CallAfterMemo(prev, c) ==
    IF prev.n > 0 /\ PairCalls[prev.idx].tool = c.tool THEN prev.out ELSE DT_invoke(c).out

\* What call c returns in a sequence whose state so far is prev: the functions read
\* their arguments, the environment, the HTTP response and the random pick, and no
\* module-level state.
CallAfter(prev, c) == DT_invoke(c).out

InitPair ==
    /\ call = <<>>
    /\ out = Pending
    /\ reqs = <<>>
    /\ stdout = <<>>
    /\ evald = <<>>
    /\ demoPc = Pc("idle", 0)
    /\ demoLog = <<>>
    /\ runs = [r \in 1..2 |-> Run(0, 0, Pending)]

\* the next call of sequence r
PairInvoke(r, i) ==
    /\ runs[r].n < MaxCalls
    /\ runs' = [runs EXCEPT ![r] = Run(runs[r].n + 1, i, CallAfter(runs[r], PairCalls[i]))]
    /\ UNCHANGED <<call, out, reqs, stdout, evald, demoPc, demoLog>>

NextPair == \E r \in 1..2, i \in 1..Len(PairCalls) : PairInvoke(r, i)

SpecPair == InitPair /\ [][NextPair]_vars

----------------------------------------------------------------------------
(* main of src/my_agent_demo.py *)

Whitespace == {" ", "\t"}

\* str.strip()
Strip(cs) ==
    LET kept == {i \in 1..Len(cs) : cs[i] \notin Whitespace}
    IN  IF kept = {} THEN <<>>
        ELSE SubSeq(cs, CHOOSE i \in kept : \A j \in kept : i <= j,
                        CHOOSE i \in kept : \A j \in kept : i >= j)

\* demos: the demo functions each key calls, in the order it calls them
\* (1 demo_basic_agent, 2 demo_search_agent, 3 demo_with_openai)
MainDemos ==
    (<<"1">> :> <<1>>) @@ (<<"2">> :> <<2>>) @@ (<<"3">> :> <<3>>)
        @@ (<<"a", "l", "l">> :> <<1, 2, 3>>)

\* what the user types at the prompt
MainInputs ==
    <<<<"1">>, <<"2">>, <<"3">>, <<"a", "l", "l">>, <<" ", "2">>, <<"a", "l", "l", " ">>,
      <<>>, <<" ">>, <<"4">>, <<"A", "L", "L">>, <<"1", "2">>, <<"a", " ", "l", "l">>,
      <<"\t", "3", " ">>>>

\* how a call of a demo function ends: it returns, or an exception leaves it
DemoEnds == {"returned", "KeyboardInterrupt"} \cup Exceptions

InitMain ==
    /\ call = <<>>
    /\ out = Pending
    /\ reqs = <<>>
    /\ stdout = <<>>
    /\ evald = <<>>
    /\ demoPc = Pc("idle", 0)
    /\ demoLog = <<>>
    /\ runs = <<>>

\* the menu, input(...).strip() and the test `choice in demos`
MainChoose ==
    /\ demoPc.at = "idle"
    /\ \E t \in 1..Len(MainInputs) :
          LET choice == Strip(MainInputs[t])
          IN  /\ call' = [text |-> MainInputs[t], choice |-> choice]
              /\ IF choice \in DOMAIN MainDemos
                 THEN demoPc' = Pc("try", 1) /\ stdout' = stdout
                 ELSE demoPc' = Pc("done", 0) /\ stdout' = <<"[x] Invalid choice!">>
    /\ UNCHANGED <<out, reqs, evald, demoLog, runs>>

\* the handlers of the try statement around demo_func()
MainHandler(e) ==
    IF e = "KeyboardInterrupt" THEN <<"[stop] Demo interrupted by user">>
    ELSE <<"[x] Demo failed with error: ", ExcText(e)>>

\* a variant in which every demo of the list runs in a try block of its own
MainDemoEachGuarded ==
    /\ demoPc.at = "try"
    /\ demoPc.i <= Len(MainDemos[call.choice])
    /\ \E r \in DemoEnds :
          /\ demoLog' = Append(demoLog, [demo |-> MainDemos[call.choice][demoPc.i], end |-> r])
          /\ stdout' = IF r = "returned" THEN stdout ELSE stdout \o MainHandler(r)
          /\ demoPc' = Pc("try", demoPc.i + 1)
    /\ UNCHANGED <<call, out, reqs, evald, runs>>

\* demo_func() in the try block: the next demo function the chosen entry calls;
\* an exception leaves demo_func() and reaches the handlers
MainDemo ==
    /\ demoPc.at = "try"
    /\ demoPc.i <= Len(MainDemos[call.choice])
    /\ \E r \in DemoEnds :
          /\ demoLog' = Append(demoLog, [demo |-> MainDemos[call.choice][demoPc.i], end |-> r])
          /\ IF r = "returned"
             THEN demoPc' = Pc("try", demoPc.i + 1) /\ stdout' = stdout
             ELSE demoPc' = Pc("done", demoPc.i) /\ stdout' = stdout \o MainHandler(r)
    /\ UNCHANGED <<call, out, reqs, evald, runs>>

\* demo_func() returned: main ends
MainFinish ==
    /\ demoPc.at = "try"
    /\ demoPc.i > Len(MainDemos[call.choice])
    /\ demoPc' = Pc("done", demoPc.i)
    /\ UNCHANGED <<call, out, reqs, stdout, evald, demoLog, runs>>

NextMain == MainChoose \/ MainDemo \/ MainFinish

SpecMain == InitMain /\ [][NextMain]_vars

----------------------------------------------------------------------------
(* Properties of a single tool invocation, checked under Spec *)

Finished == out.kind # "pending"
IsCall(file, tool) == call.file = file /\ call.tool = tool
ApiTools ==
    {"convert_currency", "get_weather", "get_joke", "get_random_fact", "search_wikipedia"}
ReturnedStr == out.kind = "return" /\ out.type = "str"
ExcTexts == {ExcText(e) : e \in Exceptions}

\* the characters the claims name: the digits, + - * / . ( ) and the space
NamedChars ==
    {"0", "1", "2", "3", "4", "5", "6", "7", "8", "9", "+", "-", "*", "/", ".", "(", ")", " "}
HasOtherChar(e) == \E i \in 1..Len(e) : e[i] \notin NamedChars

\* C1: in demo_tools.py a call of convert_currency, get_weather, get_joke,
\* get_random_fact or search_wikipedia never raises: whatever the HTTP exchange
\* does (connection failure, timeout, error status, body that is no JSON, JSON
\* without an expected field), the call returns a str.
C1_DemoToolsNeverRaise ==
    (Finished /\ call.file = "demo_tools" /\ call.tool \in ApiTools) => ReturnedStr

\* C1 witness: get_weather got a JSON body without "current" and returned its error string
C1_Witness ==
    /\ Finished /\ IsCall("demo_tools", "get_weather")
    /\ call.http.status = "ok" /\ call.http.data.k = "dict"
    /\ DOMAIN call.http.data.v = {"location"}
    /\ out.kind = "return"
    /\ out.val = <<"[x] Error fetching weather: ", "<KeyError>">>

\* C2 (as claimed): in local_multiple_tools.py a call of an API tool returns a
\* str and never raises, whether the request fails or the parsed response lacks
\* a field the tool reads.
C2_LocalToolsNeverRaise ==
    (Finished /\ call.file = "local_multiple_tools" /\ call.tool \in ApiTools) => ReturnedStr

\* C3 (as claimed): no calculator of the repository passes to eval an expression
\* with a character outside the digits, + - * / . ( ) and the space.
C3_EveryCalculatorChecks ==
    (Finished /\ <<call.file, call.tool>> \in Calculators)
        => \A i \in 1..Len(evald) : ~HasOtherChar(evald[i])

\* What the calculators do: calculate of demo_tools.py and of
\* local_multiple_tools.py never pass such an expression to eval; calculate of
\* my_agent_demo.py and of my_gradio_demo.py and simple_calculator of
\* simple_demo.py check nothing and pass every expression to eval.
CheckedCalculators ==
    (Finished /\ <<call.file, call.tool>> \in Calculators)
        => IF call.file \in {"demo_tools", "local_multiple_tools"}
           THEN /\ \A i \in 1..Len(evald) : ~HasOtherChar(evald[i])
                /\ HasOtherChar(call.args.expression) => evald = <<>>
           ELSE evald = <<call.args.expression>>

\* C4: an invocation of an API tool (demo_tools.py, local_multiple_tools.py)
\* issues at most one HTTP GET; after a failed request it ends without a second one.
C4_AtMostOneRequest ==
    (Finished /\ call.tool \in ApiTools) => Len(reqs) <= 1

\* C4 witness: the request timed out, and the tool ended after that one request
C4_Witness ==
    /\ Finished /\ IsCall("demo_tools", "search_wikipedia")
    /\ call.http.status = "timeout"
    /\ Len(reqs) = 1
    /\ out.val = <<"[x] Error searching Wikipedia: ", "<Timeout>">>

IsFallback(prefix, table) ==
    /\ ReturnedStr
    /\ \E i \in 1..Len(table) : out.val = <<prefix, table[i]>>
    /\ Range(out.val) \cap ExcTexts = {}

\* C5: in demo_tools.py, when the API call of get_joke or get_random_fact fails
\* (the request raises, the body is no JSON or no JSON object for get_joke, or
\* get_random_fact's handler ran),
\* the result is the tool's prefix followed by one entry of its fallback table
\* (3 jokes, 5 facts), with no text of the exception or of the response in it.
C5_FallbackOnFailure ==
    /\ (Finished /\ IsCall("demo_tools", "get_joke")
            /\ (call.http.status # "ok" \/ call.http.data.k # "dict"))
           => /\ IsFallback("[smile] ", DT_fallback_jokes)
              /\ Len(DT_fallback_jokes) = 3
    /\ (Finished /\ IsCall("demo_tools", "get_random_fact")
            /\ (call.http.status # "ok" \/ stdout # <<>>))
           => /\ IsFallback("[brain] Random Fact: ", DT_fallback_facts)
              /\ Len(DT_fallback_facts) = 5

\* C5 witness: get_joke met an HTTP error status and returned its second fallback joke
C5_Witness ==
    /\ Finished /\ IsCall("demo_tools", "get_joke")
    /\ call.http.status = "http_error" /\ call.rnd = 2
    /\ out.val = <<"[smile] ", DT_fallback_jokes[2]>>

WeatherKey == call.env["WEATHERSTACK_API_KEY"]
KeyUsable == WeatherKey.k = "str" /\ WeatherKey.v # <<>>

\* C8: get_weather (demo_tools.py, local_multiple_tools.py) issues no HTTP
\* request when WEATHERSTACK_API_KEY is unset or empty and returns the
\* "Weather API key not configured" message; a request is issued only with a
\* non-empty key.
C8_NoRequestWithoutKey ==
    (Finished /\ call.tool = "get_weather")
        => /\ ~KeyUsable =>
                /\ reqs = <<>>
                /\ out.kind = "return"
                /\ out.val \in
                     {<<"[x] Weather API key not configured. Please add WEATHERSTACK_API_KEY to your .env file.">>,
                      <<"Weather API key not configured. Please add WEATHERSTACK_API_KEY to your .env file.">>}
           /\ reqs # <<>> => KeyUsable

\* C8 witness: the key is set and empty, and get_weather ended without a request
C8_Witness ==
    /\ Finished /\ IsCall("local_multiple_tools", "get_weather")
    /\ WeatherKey.k = "str" /\ WeatherKey.v = <<>>
    /\ reqs = <<>>
    /\ out.kind = "return"

\* C9: calculate of demo_tools.py and of local_multiple_tools.py returns a str
\* for every input and never raises: the invalid-characters message for an
\* input with a character outside the allow-list, the "Error calculating"
\* message for an allow-listed input whose evaluation fails, and the
\* "<expression> = <result>" form only for an input that evaluates.
C9_CalculateTotal ==
    (Finished /\ call.file \in {"demo_tools", "local_multiple_tools"}
        /\ call.tool = "calculate")
        => LET e == call.args.expression
               dt == call.file = "demo_tools"
               r == PyEval(e)
           IN  /\ ReturnedStr
               /\ IF HasOtherChar(e)
                  THEN out.val =
                        <<IF dt
                          THEN "[x] Invalid characters in expression. Only numbers and basic math operators are allowed."
                          ELSE "Error: Invalid characters in expression. Only numbers and basic math operators are allowed.">>
                  ELSE IF ~r.ok
                  THEN out.val = <<IF dt THEN "[x] Error calculating '" ELSE "Error calculating '">>
                                     \o e \o <<"': ", ExcText(r.exc)>>
                  ELSE out.val = (IF dt THEN <<"[calc] ">> ELSE <<>>)
                                     \o e \o <<" = ", ValueStr(r.val)>>

\* C9 witness: a division by zero yields the "Error calculating" message
C9_Witness ==
    /\ Finished /\ IsCall("local_multiple_tools", "calculate")
    /\ call.args.expression = <<"2", "/", "0">>
    /\ out.val = <<"Error calculating '", "2", "/", "0", "': ", "<ZeroDivisionError>">>

\* C10: get_random_fact of demo_tools.py returns on every path a str that
\* starts with the "Random Fact: " prefix: the API's text when the request
\* succeeds and the JSON has a "text" key, else one of the five fallback facts;
\* it never returns None.
C10_RandomFactShape ==
    (Finished /\ IsCall("demo_tools", "get_random_fact"))
        => LET d == call.http.data
               hasText == call.http.status = "ok" /\ d.k = "dict" /\ "text" \in DOMAIN d.v
           IN  /\ ReturnedStr
               /\ out.val # <<>> /\ out.val[1] = "[brain] Random Fact: "
               /\ IF hasText
                  THEN out.val = <<"[brain] Random Fact: ">> \o PyStr(d.v["text"])
                  ELSE \E i \in 1..5 :
                          out.val = <<"[brain] Random Fact: ", DT_fallback_facts[i]>>

\* C10 witness: the request succeeded with a JSON object without "text", and the
\* fallback fact picked was returned
C10_Witness ==
    /\ Finished /\ IsCall("demo_tools", "get_random_fact")
    /\ call.http.status = "ok" /\ call.http.data.k = "dict"
    /\ DOMAIN call.http.data.v = {"id"}
    /\ call.rnd = 4
    /\ out.val = <<"[brain] Random Fact: ", DT_fallback_facts[4]>>

----------------------------------------------------------------------------
(* Properties of call sequences (SpecPair) and of the demo (SpecDemoFair) *)

DemoOrder ==
    /\ Len(demoLog) <= Len(DemoTitles)
    /\ \A k \in 1..Len(demoLog) : demoLog[k].title = DemoTitles[k]
    /\ \A k \in 1..Len(demoLog) :
          demoLog[k].status \in {"result", "error"}
          /\ (demoLog[k].status = "error" => demoLog[k].text[1] = "[x] Error: ")
    /\ demoPc.at \in {"idle", "loop", "done"}
    /\ demoPc.at = "loop" => Len(demoLog) = demoPc.i - 1
    /\ demoPc.at = "done" => Len(demoLog) = Len(DemoTitles)

\* C7: run_comprehensive_demo runs the six demos in the order currency, weather,
\* joke, fact, Wikipedia, calculator, each once, and always reaches the final
\* "Demo complete" output; an exception raised in a demo is reported and keeps
\* no later demo from running.
C7_DemoRunsAll == []DemoOrder /\ <>(demoPc.at = "done")

\* C7 witness: the demo is complete, and the joke demo ended in the handler
C7_Witness ==
    /\ demoPc.at = "done"
    /\ Len(demoLog) = 6
    /\ demoLog[3].status = "error"
    /\ demoLog[3].text = <<"[x] Error: ", "<UnicodeEncodeError>">>
    /\ demoLog[6].status = "result"

----------------------------------------------------------------------------
(* Properties of convert_currency of local_multiple_tools.py (Spec) *)

\* the endpoint of the one request of the call
Endpoint ==
    IF reqs[1][1] = "https://v6.exchangerate-api.com/v6/" THEN "pair"
    ELSE IF reqs[1][1] = "https://api.exchangerate-api.com/v4/latest/" THEN "latest"
    ELSE "other"

BodyFields == IF call.http.data.k = "dict" THEN DOMAIN call.http.data.v ELSE {}
Converted(text) == Return(<<"1000", " ", "USD", " = ", text, " ", "EUR", " (Rate: ">>)

\* the returned string opens as the conversion at the given amount does
ConvertedTo(text) ==
    out.kind = "return" /\ Len(out.val) > 8 /\ SubSeq(out.val, 1, 8) = Converted(text).val

\* C11: in convert_currency of local_multiple_tools.py the format parsed matches
\* the endpoint requested: with a non-empty EXCHANGE_API_KEY the pair endpoint is
\* requested and "result"/"conversion_rate" are read, without one (unset or
\* empty) the latest-rates endpoint is requested and "rates"[to_currency] is
\* read; no call requests one endpoint and parses the other format.
C11_FormatMatchesEndpoint ==
    (Finished /\ IsCall("local_multiple_tools", "convert_currency")) =>
        /\ Len(reqs) = 1
        /\ Endpoint = (IF PyTruthy(call.env.EXCHANGE_API_KEY) THEN "pair" ELSE "latest")
        /\ (call.http.status = "ok" /\ BodyFields = {"result", "conversion_rate", "rates"})
              => ConvertedTo(IF Endpoint = "pair" THEN "500.00" ELSE "850.00")
        /\ (call.http.status = "ok" /\ BodyFields = {"result", "conversion_rate"}
                /\ call.http.data.v["conversion_rate"].k = "num")
              => IF Endpoint = "pair" THEN ConvertedTo("850.00")
                 ELSE out = Return(<<"Error: Could not find exchange rate for ", "USD",
                                     " to ", "EUR">>)
        /\ (call.http.status = "ok" /\ BodyFields = {"base", "rates"}
                /\ "EUR" \in DOMAIN call.http.data.v["rates"].v)
              => IF Endpoint = "pair" THEN out = Return(<<"Error: ", "Unknown error">>)
                 ELSE ConvertedTo("850.00")

\* C11 witness: EXCHANGE_API_KEY is set to the empty string, the body holds both
\* formats, and the rate of "rates" was read from the latest-rates endpoint
C11_Witness ==
    /\ Finished /\ IsCall("local_multiple_tools", "convert_currency")
    /\ call.env.EXCHANGE_API_KEY = JStr(<<>>)
    /\ call.http.status = "ok"
    /\ BodyFields = {"result", "conversion_rate", "rates"}
    /\ Endpoint = "latest"
    /\ ConvertedTo("850.00")

----------------------------------------------------------------------------
(* Properties of main of my_agent_demo.py (SpecMain) *)

MainDone == demoPc.at = "done"
Chosen == demoPc.at # "idle"

\* C12: in main of my_agent_demo.py a choice (the input, stripped) that is none
\* of "1", "2", "3", "all" runs no demo and prints the invalid-choice message; an
\* exception raised by the chosen demo is caught and reported, not propagated;
\* with "all" the demos run in the order 1, 2, 3 and an exception in an earlier
\* one keeps the later ones from running.
C12_MainDispatch ==
    /\ demoPc.at \in {"idle", "try", "done"}
    /\ (Chosen /\ call.choice \notin {<<"1">>, <<"2">>, <<"3">>, <<"a", "l", "l">>})
          => MainDone /\ demoLog = <<>> /\ stdout = <<"[x] Invalid choice!">>
    /\ (Chosen /\ call.choice \in {<<"1">>, <<"2">>, <<"3">>})
          => /\ Len(demoLog) <= 1
             /\ \A k \in 1..Len(demoLog) : <<ToString(demoLog[k].demo)>> = call.choice
    /\ (Chosen /\ call.choice = <<"a", "l", "l">>)
          => /\ Len(demoLog) <= 3
             /\ \A k \in 1..Len(demoLog) :
                   demoLog[k].demo = k /\ (k < Len(demoLog) => demoLog[k].end = "returned")
    /\ (MainDone /\ demoLog # <<>>)
          => LET last == demoLog[Len(demoLog)].end
             IN  /\ last = "returned" =>
                       stdout = <<>> /\ Len(demoLog) = Len(MainDemos[call.choice])
                 /\ last = "KeyboardInterrupt" => stdout = <<"[stop] Demo interrupted by user">>
                 /\ last \in Exceptions =>
                       stdout = <<"[x] Demo failed with error: ", ExcText(last)>>
    /\ (MainDone /\ Chosen /\ call.choice \in DOMAIN MainDemos) => demoLog # <<>>

\* C12 witness: "all " was typed, demo 1 returned, demo 2 raised, demo 3 never
\* ran and the failure was reported
C12_Witness ==
    /\ MainDone
    /\ call.text = <<"a", "l", "l", " ">>
    /\ Len(demoLog) = 2
    /\ demoLog[1] = [demo |-> 1, end |-> "returned"]
    /\ demoLog[2] = [demo |-> 2, end |-> "ValueError"]
    /\ stdout = <<"[x] Demo failed with error: ", "<ValueError>">>

----------------------------------------------------------------------------
(* Properties of get_weather: units and label (Spec) *)

\* the units parameter of the one request of the call: the last part of its URL
RequestedUnits == reqs[1][Len(reqs[1])]

\* the unit labels in the returned string
Labels == Range(out.val) \cap {"C", "F"}

WeatherReported ==
    /\ Finished /\ call.tool = "get_weather" /\ out.kind = "return"
    /\ out.val[1] \in {"[weather] Weather in ", "Weather in "}

\* C13: in get_weather (demo_tools.py, local_multiple_tools.py) the units
\* requested and the label of the temperatures agree: the request carries units
\* "m" exactly when the result is labelled C, and "f" exactly when it is
\* labelled F; celsius True asks for "m", celsius False and None ask for "f".
C13_UnitsMatchLabel ==
    /\ (Finished /\ call.tool = "get_weather" /\ Len(reqs) > 0)
          => /\ Len(reqs) = 1
             /\ RequestedUnits = (IF call.args.celsius.k = "bool" /\ call.args.celsius.v
                                  THEN "m" ELSE "f")
    /\ WeatherReported
          => /\ Len(reqs) = 1
             /\ Labels = (IF RequestedUnits = "m" THEN {"C"} ELSE {"F"})
             /\ Len(SelectSeq(out.val, LAMBDA t : t \in {"C", "F"})) = 2

\* C13 witness: get_weather of local_multiple_tools.py was called with celsius
\* None, asked for units "f" and labelled both temperatures F
C13_Witness ==
    /\ WeatherReported
    /\ call.file = "local_multiple_tools"
    /\ call.args.celsius = JNull
    /\ RequestedUnits = "f"
    /\ Labels = {"F"}

====
